---------------------------- MODULE Spec2Model ----------------------------
(***************************************************************************)
(* Model of ruckit.py: LocationSyncScheduler.                              *)
(*                                                                         *)
(* Six specifications share the variables below.                           *)
(*   Spec       the scheduler: the controlling thread calling start() and  *)
(*              stop(), and the worker threads running scheduler_loop.     *)
(*              A reconciliation cycle is one call of process_location_sync*)
(*              that either returns or raises.                             *)
(*   FairSpec   Spec with weak fairness on every worker thread's steps.    *)
(*   SpecCycle  one thread's calls of process_location_sync, step by step: *)
(*              the Telemetry fetches, the identity mapping, and for every *)
(*              device status the Tracking read, the comparison and the    *)
(*              correction push.                                           *)
(*   SpecMapper the identity mapping loop applied to every batch of        *)
(*              AddInData records up to a bounded length.                  *)
(*   SpecConverge successive cycles on unchanged Telemetry data against a  *)
(*              Tracking service that stores the corrections it accepts.   *)
(*   SpecPure   one call of latest-update selection, coordinates_match or  *)
(*              post_location_update_to_ruckit on arguments of every kind. *)
(*                                                                         *)
(* Python's None is NoneVal in a string field and an absent field where    *)
(* the value is a number; coordinates are integers counting units of       *)
(* 0.00001 degree; print() is taken never to raise inside a handler.       *)
(***************************************************************************)
EXTENDS Integers, Sequences, FiniteSets, TLC

\* Bounds of the model.
MaxThreads == 2      \* worker threads ever created by start()
MaxClock == 12       \* last tick of the wall clock at which a cycle begins

Threads == 1..MaxThreads
NoThread == 0

VARIABLES
    running,            \* self.running
    geotab_api,         \* self.geotab_api: "None", "unauthenticated" or "authenticated"
    scheduler_thread,   \* self.scheduler_thread: NoThread or the thread last created
    pc,                 \* position of every worker thread in scheduler_loop
    ctl,                \* position of the controlling thread: "idle", "start_auth", "stop_join"
    last_call,          \* what the last finished start()/stop() call reported
    ever_stopped,       \* history: stop() has cleared the running flag at least once
    auth_failures,      \* history: consecutive failed authentications of each worker
                        \* (0, 1, or 2 for two or more)
    unslept,            \* history: the worker is back at the loop test from an
                        \* iteration after which it did not sleep
    \* process_location_sync: its local variables and what it exchanged with the two APIs
    cpc,                \* position inside process_location_sync
    device_status_list, \* local device_status_list
    add_in_data_list,   \* local add_in_data_list
    device_mapping,     \* local device_mapping
    skipped_records,    \* local skipped_records
    discrepancies_found,\* local discrepancies_found
    idx,                \* position of the for loop over device_status_list (1-based)
    ruckit_coords,      \* local ruckit_coords of the device being processed: <<>> is None
    post_result,        \* what the last post_location_update_to_ruckit returned
    outcome,            \* the message logged for the device processed last
    calls,              \* history: the API calls issued so far in this cycle
    ruckit_response,    \* local ruckit_response, by its shape: "unset", "None",
                        \* "no_results", "empty", "results", or "raise"
    \* Tracking, as far as the cycle of one driver sees it
    tracking_store,     \* the location updates Tracking holds for the driver
    clock,              \* the wall clock, in ticks
    pushed,             \* history: corrections Tracking has accepted and stored
    \* one call of a function of the class on its own
    fn_call,            \* the function and its arguments
    fn_ret              \* <<>> before the call returns, then <<value>>

schedVars == <<running, geotab_api, scheduler_thread, pc, ctl, last_call, ever_stopped,
               auth_failures, unslept>>
cycleVars == <<cpc, device_status_list, add_in_data_list, device_mapping, skipped_records,
               discrepancies_found, idx, ruckit_coords, post_result, outcome, calls,
               ruckit_response>>
trackVars == <<tracking_store, clock, pushed>>
pureVars == <<fn_call, fn_ret>>
vars == <<schedVars, cycleVars, trackVars, pureVars>>

\* A position in which a worker is inside a blocking call (a network call or
\* time.sleep(120)) that can outlast stop()'s join(timeout=5).
Blocking == {"auth", "sync", "sleep", "auth_failed_sleep", "except_sleep"}
Sleeping == {"sleep", "auth_failed_sleep", "except_sleep"}
Live(t) == pc[t] \notin {"unborn", "done"}
LiveThreads == {t \in Threads : Live(t)}
InCycle == {t \in Threads : pc[t] = "sync"}

Min(a, b) == IF a < b THEN a ELSE b

\* device_mapping = {}
EmptyMapping == [k \in {} |-> [ri_device |-> "", ri_token |-> "", ri_driver |-> ""]]

Init ==
    /\ running = FALSE
    /\ geotab_api = "None"
    /\ scheduler_thread = NoThread
    /\ pc = [t \in Threads |-> "unborn"]
    /\ ctl = "idle"
    /\ last_call = "none"
    /\ ever_stopped = FALSE
    /\ auth_failures = [t \in Threads |-> 0]
    /\ unslept = [t \in Threads |-> FALSE]
    /\ cpc = "idle"
    /\ device_status_list = <<>>
    /\ add_in_data_list = <<>>
    /\ device_mapping = EmptyMapping
    /\ skipped_records = 0
    /\ discrepancies_found = 0
    /\ idx = 1
    /\ ruckit_coords = <<>>
    /\ post_result = "none"
    /\ outcome = "none"
    /\ calls = <<>>
    /\ ruckit_response = "unset"
    /\ tracking_store = <<>>
    /\ clock = 0
    /\ pushed = 0
    /\ fn_call = [fn |-> "none"]
    /\ fn_ret = <<>>

\* authenticate_geotab: the API object is replaced, then authenticate() succeeds or raises.
AuthenticateGeotab(ok) == IF ok THEN "authenticated" ELSE "unauthenticated"

-----------------------------------------------------------------------------
\* start()

StartAlreadyRunning ==
    /\ ctl = "idle"
    /\ running
    /\ last_call' = "start_already_running"
    /\ UNCHANGED <<running, geotab_api, scheduler_thread, pc, ctl, ever_stopped, auth_failures>>
    /\ UNCHANGED <<cycleVars, trackVars, pureVars, unslept>>

StartBegin ==
    /\ ctl = "idle"
    /\ ~running
    /\ \E t \in Threads : pc[t] = "unborn"
    /\ ctl' = "start_auth"
    /\ UNCHANGED <<running, geotab_api, scheduler_thread, pc, last_call, ever_stopped,
                   auth_failures>>
    /\ UNCHANGED <<cycleVars, trackVars, pureVars, unslept>>

\* start() without the check of the initial authentication.
StartSpawns_Unchecked(ok) == TRUE

\* The thread start() creates when its authentication returned ok.
StartSpawns(ok) == ok

StartFinish ==
    /\ ctl = "start_auth"
    /\ \E ok \in BOOLEAN :
        /\ geotab_api' = AuthenticateGeotab(ok)
        /\ IF StartSpawns(ok)
           THEN LET t == CHOOSE u \in Threads :
                            pc[u] = "unborn" /\ \A v \in Threads : pc[v] = "unborn" => u <= v
                IN  /\ running' = TRUE
                    /\ scheduler_thread' = t
                    /\ pc' = [pc EXCEPT ![t] = "top"]
           ELSE UNCHANGED <<running, scheduler_thread, pc>>
        /\ last_call' = IF ok THEN "start_ok" ELSE "start_auth_failed"
    /\ ctl' = "idle"
    /\ UNCHANGED <<ever_stopped, auth_failures>>
    /\ UNCHANGED <<cycleVars, trackVars, pureVars, unslept>>

-----------------------------------------------------------------------------
\* stop()

StopNotRunning ==
    /\ ctl = "idle"
    /\ ~running
    /\ last_call' = "stop_not_running"
    /\ UNCHANGED <<running, geotab_api, scheduler_thread, pc, ctl, ever_stopped, auth_failures>>
    /\ UNCHANGED <<cycleVars, trackVars, pureVars, unslept>>

StopBegin ==
    /\ ctl = "idle"
    /\ running
    /\ running' = FALSE
    /\ ever_stopped' = TRUE
    /\ ctl' = "stop_join"
    /\ UNCHANGED <<geotab_api, scheduler_thread, pc, last_call, auth_failures>>
    /\ UNCHANGED <<cycleVars, trackVars, pureVars, unslept>>

\* join(timeout=5) returns when the thread has ended, or after the timeout while
\* the thread is still inside a blocking call.
StopJoinReturns ==
    /\ ctl = "stop_join"
    /\ \/ scheduler_thread = NoThread
       \/ pc[scheduler_thread] = "done"
       \/ pc[scheduler_thread] \in Blocking
    /\ ctl' = "idle"
    /\ last_call' = "stop"
    /\ UNCHANGED <<running, geotab_api, scheduler_thread, pc, ever_stopped, auth_failures>>
    /\ UNCHANGED <<cycleVars, trackVars, pureVars, unslept>>

-----------------------------------------------------------------------------
\* scheduler_loop, one worker thread t

\* A loop that ignores the flag.
LoopContinues_Forever == TRUE

\* while self.running:
LoopContinues == running

LoopTest(t) ==
    /\ pc[t] = "top"
    /\ pc' = [pc EXCEPT ![t] = IF LoopContinues THEN "auth" ELSE "done"]
    /\ UNCHANGED <<running, geotab_api, scheduler_thread, ctl, last_call, ever_stopped>>
    \* a worker that ends has no failures pending
    /\ auth_failures' = [auth_failures EXCEPT ![t] = IF LoopContinues THEN @ ELSE 0]
    /\ unslept' = [unslept EXCEPT ![t] = FALSE]
    /\ UNCHANGED <<cycleVars, trackVars, pureVars>>

\* self.authenticate_geotab() returns True or False.
LoopAuthenticate(t) ==
    /\ pc[t] = "auth"
    /\ \E ok \in BOOLEAN :
        /\ geotab_api' = AuthenticateGeotab(ok)
        /\ pc' = [pc EXCEPT ![t] = IF ok THEN "auth_true" ELSE "auth_false"]
        /\ auth_failures' = [auth_failures EXCEPT
                                ![t] = IF ok THEN @ ELSE Min(@ + 1, 2)]
    /\ UNCHANGED <<running, scheduler_thread, ctl, last_call, ever_stopped>>
    /\ UNCHANGED <<cycleVars, trackVars, pureVars, unslept>>

\* A loop that runs the cycle whatever the authentication returned.
AfterAuth_AlwaysSync(authenticated) == "sync"

\* if not self.authenticate_geotab(): sleep and continue; else process_location_sync()
AfterAuth(authenticated) == IF authenticated THEN "sync" ELSE "auth_failed_sleep"

LoopBranch(t) ==
    /\ pc[t] \in {"auth_true", "auth_false"}
    /\ pc' = [pc EXCEPT ![t] = AfterAuth(pc[t] = "auth_true")]
    /\ UNCHANGED <<running, geotab_api, scheduler_thread, ctl, last_call, ever_stopped,
                   auth_failures>>
    /\ UNCHANGED <<cycleVars, trackVars, pureVars, unslept>>

\* process_location_sync() returns: every failure inside it was caught and logged.
SyncReturns(t) ==
    /\ pc[t] = "sync"
    /\ pc' = [pc EXCEPT ![t] = "check_running"]
    /\ auth_failures' = [auth_failures EXCEPT ![t] = 0]
    /\ UNCHANGED <<running, geotab_api, scheduler_thread, ctl, last_call, ever_stopped>>
    /\ UNCHANGED <<cycleVars, trackVars, pureVars, unslept>>

\* A loop without the handler: the exception ends the thread.
AfterException_EndsLoop == "done"

\* Where the loop goes when an exception escapes the body of an iteration:
\* except Exception: print, time.sleep(120).
AfterException == "except_sleep"

\* An exception escapes process_location_sync() (its first and last print are
\* outside its try block) and is caught by the loop's handler.
SyncRaises(t) ==
    /\ pc[t] = "sync"
    /\ pc' = [pc EXCEPT ![t] = AfterException]
    /\ auth_failures' = [auth_failures EXCEPT ![t] = 0]
    /\ UNCHANGED <<running, geotab_api, scheduler_thread, ctl, last_call, ever_stopped>>
    /\ UNCHANGED <<cycleVars, trackVars, pureVars, unslept>>

\* if self.running: time.sleep(120)
CheckRunning(t) ==
    /\ pc[t] = "check_running"
    /\ pc' = [pc EXCEPT ![t] = IF running THEN "sleep" ELSE "top"]
    /\ UNCHANGED <<running, geotab_api, scheduler_thread, ctl, last_call, ever_stopped,
                   auth_failures>>
    /\ unslept' = [unslept EXCEPT ![t] = ~running]
    /\ UNCHANGED <<cycleVars, trackVars, pureVars>>

\* time.sleep(120) returns.
SleepReturns(t) ==
    /\ pc[t] \in Sleeping
    /\ pc' = [pc EXCEPT ![t] = "top"]
    /\ UNCHANGED <<running, geotab_api, scheduler_thread, ctl, last_call, ever_stopped,
                   auth_failures>>
    /\ UNCHANGED <<cycleVars, trackVars, pureVars, unslept>>

WorkerStep(t) ==
    \/ LoopTest(t)
    \/ LoopAuthenticate(t)
    \/ LoopBranch(t)
    \/ SyncReturns(t)
    \/ SyncRaises(t)
    \/ CheckRunning(t)
    \/ SleepReturns(t)

Next ==
    \/ StartAlreadyRunning
    \/ StartBegin
    \/ StartFinish
    \/ StopNotRunning
    \/ StopBegin
    \/ StopJoinReturns
    \/ \E t \in Threads : WorkerStep(t)

Spec == Init /\ [][Next]_vars

FairSpec == Spec /\ \A t \in Threads : WF_vars(WorkerStep(t))

-----------------------------------------------------------------------------
\* Properties of the scheduler (Spec, FairSpec).

\* C1: whatever start() and stop() calls are made, at most one worker thread is
\* live and at most one of them is inside a reconciliation cycle.
C1_AtMostOneWorker ==
    /\ Cardinality(LiveThreads) <= 1
    /\ Cardinality(InCycle) <= 1

\* C2: the running flag is set and a thread is created only by a start() whose
\* authentication succeeded; a start() whose authentication failed leaves the
\* flag false, creates no thread and reports the failure.
C2_StartOnlyIfAuthenticated ==
    [][ /\ (~running /\ running') =>
              ctl = "start_auth" /\ geotab_api' = "authenticated" /\ last_call' = "start_ok"
        /\ (\E t \in Threads : pc[t] = "unborn" /\ pc'[t] # "unborn") =>
              ctl = "start_auth" /\ geotab_api' = "authenticated" /\ running'
        /\ (ctl = "start_auth" /\ ctl' = "idle" /\ geotab_api' = "authenticated") =>
              running' /\ scheduler_thread' # NoThread /\ pc'[scheduler_thread'] = "top"
                       /\ pc[scheduler_thread'] = "unborn"
        /\ (ctl = "start_auth" /\ ctl' = "idle" /\ geotab_api' # "authenticated") =>
              ~running' /\ pc' = pc /\ scheduler_thread' = scheduler_thread
                        /\ last_call' = "start_auth_failed"
      ]_vars

\* C2's case: a start() whose authentication failed has returned and the scheduler
\* is still stopped with no thread created.
C2_Witness ==
    /\ last_call = "start_auth_failed"
    /\ ~running
    /\ LiveThreads = {}
    /\ scheduler_thread = NoThread

\* C3: a worker enters the cycle exactly from an authentication that returned
\* True in the same iteration; after one that returned False it sleeps, tests the
\* flag and, while the scheduler is running, authenticates again; a success is
\* followed by the cycle after any number of failures.
C3_CycleIffAuthenticated ==
    /\ [][\A t \in Threads :
            /\ (pc[t] # "sync" /\ pc'[t] = "sync") => pc[t] = "auth_true"
            /\ (pc[t] = "auth_true" /\ pc'[t] # pc[t]) => pc'[t] = "sync"
            /\ (pc[t] = "auth_false" /\ pc'[t] # pc[t]) => pc'[t] = "auth_failed_sleep"
            /\ (pc[t] = "auth_failed_sleep" /\ pc'[t] # pc[t]) => pc'[t] = "top"
            /\ (pc[t] = "top" /\ running /\ pc'[t] # pc[t]) => pc'[t] = "auth"
         ]_vars
    /\ \A t \in Threads : (pc[t] = "auth_false") ~> (pc[t] = "auth" \/ ~running)
    /\ \A t \in Threads : (pc[t] = "auth_true") ~> (pc[t] = "sync")

\* C3's case: a worker is in the cycle after at least two consecutive failed
\* authentications.
C3_Witness == \E t \in Threads : pc[t] = "sync" /\ auth_failures[t] >= 2

\* C4: a worker thread ends only at the loop test, reading a flag that stop() has
\* cleared; a failed authentication and an exception escaping the cycle lead to
\* the sleep, the sleep to the loop test, and the loop test to a further iteration
\* while the flag is set.
C4_LoopEndsOnlyByStop ==
    [][\A t \in Threads :
        /\ (pc[t] # "done" /\ pc'[t] = "done") =>
                pc[t] = "top" /\ ~running /\ ever_stopped
        /\ (pc[t] = "auth_false" /\ pc'[t] # pc[t]) => pc'[t] \in Sleeping
        /\ (pc[t] = "sync" /\ pc'[t] # pc[t]) => pc'[t] \in {"check_running", "except_sleep"}
        /\ (pc[t] = "check_running" /\ running /\ pc'[t] # pc[t]) => pc'[t] \in Sleeping
        /\ (pc[t] \in Sleeping /\ pc'[t] # pc[t]) => pc'[t] = "top"
        /\ (pc[t] = "top" /\ running /\ pc'[t] # pc[t]) => pc'[t] = "auth"
      ]_vars

\* C4's case: an exception escaped the cycle of a worker, which is now asleep in
\* the handler while the scheduler is still running.
C4_Witness == \E t \in Threads : pc[t] = "except_sleep" /\ running

\* C5: once stop() has cleared the flag, it stays false until a start() sets it; a
\* worker begins no iteration while it is false (the loop test ends the thread, the
\* test after the cycle skips the sleep), and every live worker has ended by the
\* time the flag is set again, if it ever is: it eventually ends.
C5_StopEndsWorker ==
    /\ [][ /\ (running /\ ~running') => ctl = "idle" /\ ctl' = "stop_join"
           /\ (~running /\ running') => ctl = "start_auth"
           /\ \A t \in Threads :
                /\ (pc[t] # "auth" /\ pc'[t] = "auth") => running
                /\ (~running /\ pc[t] = "top" /\ pc'[t] # pc[t]) => pc'[t] = "done"
                /\ (~running /\ pc[t] = "check_running" /\ pc'[t] # pc[t]) => pc'[t] = "top"
         ]_vars
    /\ \A t \in Threads : (Live(t) /\ ~running) ~> (pc[t] = "done" \/ running)

\* C5's case: stop() has returned, the flag is false and the worker it stopped
\* has ended.
C5_Witness ==
    /\ last_call = "stop"
    /\ ctl = "idle"
    /\ ~running
    /\ scheduler_thread # NoThread
    /\ pc[scheduler_thread] = "done"

\* C18: a worker starts an iteration (goes from the loop test to the
\* authentication) only after the sleep that followed its previous iteration,
\* whether that one ended in a completed cycle, a failed authentication or a
\* caught exception, and whatever start() and stop() calls are interleaved.
C18_SleepBetweenIterations ==
    [][\A t \in Threads : (pc[t] = "top" /\ pc'[t] = "auth") => ~unslept[t]]_vars

-----------------------------------------------------------------------------
\* The data process_location_sync works on.

MaxDevices == 2      \* device status records returned by one Telemetry fetch
MaxRecords == 2      \* AddInData records returned by one Telemetry fetch
MaxResults == 2      \* location updates returned by one Tracking read

\* dict.get(key) of a key that is absent or whose value is None.
NoneVal == "<None>"

\* bool(value) of a string or None.
Truthy(v) == v \notin {NoneVal, ""}

SeqsUpTo(S, n) == UNION {[1..k -> S] : k \in 0..n}

\* A DeviceStatusInfo record, 'device'.'id' flattened to id; an absent latitude or
\* longitude field is None; a record whose 'device' is not a dict is "malformed".
DeviceStatusDomain ==
    { [id |-> "b1", longitude |-> 1000000, latitude |-> 2000000],
      [id |-> "b2", longitude |-> 0, latitude |-> 0],
      [id |-> "b1", longitude |-> 1000000],
      [id |-> "b2", latitude |-> 2000000],
      [id |-> NoneVal, longitude |-> 1000000, latitude |-> 2000000],
      [malformed |-> TRUE] }

\* An AddInData record, its 'details' flattened; a record whose 'details' is not a
\* dict is "malformed".
AddInRecord(gt, dev, tok, drv) ==
    [gt_device |-> gt, ri_device |-> dev, ri_token |-> tok, ri_driver |-> drv]

CycleAddInDomain ==
    { AddInRecord("b1", "d1", "t1", "r1"),
      AddInRecord("b2", "d2", "t2", "r2"),
      AddInRecord("b1", "d1", "TOKEN", "r1"),
      AddInRecord("b2", "d2", "t2", NoneVal) }

\* The batches the mapping loop is applied to on its own: every field absent or
\* empty, valid, or a placeholder; two records may share a gt-device.
AddInDomain ==
    { AddInRecord(gt, dev, tok, drv) :
        gt \in {NoneVal, "b1", "DeviceID"}, dev \in {"", "d1", "DeviceID"},
        tok \in {NoneVal, "t1", "TOKEN"}, drv \in {NoneVal, "r1", "DriverID"} }
    \cup { AddInRecord("b1", "d9", "t9", "r9"),
           AddInRecord("b2", "d2", "t2", "r2"),
           AddInRecord("b1", "d1", "DeviceID", "r1"),
           [malformed |-> TRUE] }

\* A date string is the sequence of its characters' codes; here digits only.
\* One element of a Tracking response's 'results': 'date' ('' when absent) and
\* 'location'.'coordinates' (<<>> when there is no location or no coordinates).
ResultDomain ==
    { [date |-> <<2, 0, 2, 4, 0, 1, 0, 1>>, coordinates |-> <<1000010, 1999990, 7>>],
      [date |-> <<2, 0, 2, 4, 0, 1, 0, 2>>, coordinates |-> <<1000020, 2000000>>],
      [date |-> <<>>, coordinates |-> <<1000000>>] }

\* What get_ruckit_location_updates and the code reading its result can meet:
\* None (status other than 200, RequestException), a body without 'results', a body
\* with a result list, or data on which the code raises (caught per device).
RuckitResponses ==
    { [kind |-> k, results |-> <<>>] : k \in {"none", "no_results", "raise"} }
    \cup { [kind |-> "results", results |-> r] : r \in SeqsUpTo(ResultDomain, MaxResults) }

\* What requests.post can do: a status code, or raise (status 0 here).
PostStatuses == {200, 201, 500, 0}

-----------------------------------------------------------------------------
\* Pure functions of LocationSyncScheduler.

\* is_placeholder_value
IsPlaceholderValue(value) == value \in {"TOKEN", "DriverID", "DeviceID"}

\* The loop body with a completeness check that forgets ri-driver.
MapRecord_DriverUnchecked(acc, rec) ==
    IF "malformed" \in DOMAIN rec
    THEN acc
    ELSE IF ~(Truthy(rec.gt_device) /\ Truthy(rec.ri_device) /\ Truthy(rec.ri_token))
    THEN acc
    ELSE IF IsPlaceholderValue(rec.ri_token) \/ IsPlaceholderValue(rec.ri_driver)
            \/ IsPlaceholderValue(rec.ri_device)
    THEN [acc EXCEPT !.skipped = @ + 1]
    ELSE [acc EXCEPT !.mapping =
            [k \in DOMAIN acc.mapping \cup {rec.gt_device} |->
                IF k = rec.gt_device
                THEN [ri_device |-> rec.ri_device, ri_token |-> rec.ri_token,
                      ri_driver |-> rec.ri_driver]
                ELSE acc.mapping[k]]]

\* One iteration of the loop over add_in_data_list, on acc = [mapping, skipped].
MapRecord(acc, rec) ==
    IF "malformed" \in DOMAIN rec
    THEN acc                                           \* except Exception: continue
    ELSE IF ~(Truthy(rec.gt_device) /\ Truthy(rec.ri_device)
              /\ Truthy(rec.ri_token) /\ Truthy(rec.ri_driver))
    THEN acc                                           \* incomplete: continue
    ELSE IF IsPlaceholderValue(rec.ri_token) \/ IsPlaceholderValue(rec.ri_driver)
            \/ IsPlaceholderValue(rec.ri_device)
    THEN [acc EXCEPT !.skipped = @ + 1]
    ELSE [acc EXCEPT !.mapping =
            [k \in DOMAIN acc.mapping \cup {rec.gt_device} |->
                IF k = rec.gt_device
                THEN [ri_device |-> rec.ri_device, ri_token |-> rec.ri_token,
                      ri_driver |-> rec.ri_driver]
                ELSE acc.mapping[k]]]

RECURSIVE MapRecords(_, _, _)
MapRecords(list, i, acc) ==
    IF i > Len(list) THEN acc ELSE MapRecords(list, i + 1, MapRecord(acc, list[i]))

\* for add_in_data in add_in_data_list: ...
BuildMapping(list) == MapRecords(list, 1, [mapping |-> EmptyMapping, skipped |-> 0])

\* Python's str < str.
RECURSIVE StrLess(_, _)
StrLess(a, b) ==
    IF b = <<>> THEN FALSE
    ELSE IF a = <<>> THEN TRUE
    ELSE IF Head(a) # Head(b) THEN Head(a) < Head(b)
    ELSE StrLess(Tail(a), Tail(b))

\* lambda x: x.get('date', '')
DateKey(x) == IF "date" \in DOMAIN x THEN x.date ELSE <<>>

\* max(results, key=lambda x: x.get('date', '')): the first element with the largest key.
RECURSIVE MaxByDate(_, _, _)
MaxByDate(results, i, best) ==
    IF i > Len(results) THEN best
    ELSE MaxByDate(results, i + 1,
                   IF StrLess(DateKey(best), DateKey(results[i])) THEN results[i] ELSE best)

\* The element the service listed last, as if the list came sorted by date.
LatestUpdate_Last(results) == results[Len(results)]

\* latest_update = max(results, key=lambda x: x.get('date', ''))
LatestUpdate(results) == MaxByDate(results, 2, results[1])

\* extract_coordinates: (lon, lat), or <<>> for None.
ExtractCoordinates(coords) ==
    IF Len(coords) >= 2 THEN <<coords[1], coords[2]>> ELSE <<>>

Abs(x) == IF x < 0 THEN -x ELSE x

\* The default tolerance 0.0001, in units of 0.00001.
Tolerance == 10

\* A comparison that takes a difference equal to the tolerance for a mismatch.
CoordinatesMatch_Strict(coord1, coord2, tolerance) ==
    IF coord1 = <<>> \/ coord2 = <<>> THEN FALSE
    ELSE /\ Abs(coord1[1] - coord2[1]) < tolerance
         /\ Abs(coord1[2] - coord2[2]) < tolerance

\* coordinates_match
CoordinatesMatch(coord1, coord2, tolerance) ==
    IF coord1 = <<>> \/ coord2 = <<>> THEN FALSE
    ELSE /\ Abs(coord1[1] - coord2[1]) <= tolerance
         /\ Abs(coord1[2] - coord2[2]) <= tolerance

-----------------------------------------------------------------------------
\* process_location_sync

\* The device status under the for loop.
Current == device_status_list[idx]

HasField(rec, f) == f \in DOMAIN rec

\* get_device_status_info / get_add_in_data: get_geotab_data(...) or []
OrEmpty(ok, data) == IF ok THEN data ELSE <<>>

\* A call of process_location_sync begins: fresh locals.
SyncBegin ==
    /\ cpc \in {"idle", "returned"}
    /\ cpc' = "get_status"
    /\ device_status_list' = <<>>
    /\ add_in_data_list' = <<>>
    /\ device_mapping' = EmptyMapping
    /\ skipped_records' = 0
    /\ discrepancies_found' = 0
    /\ idx' = 1
    /\ ruckit_coords' = <<>>
    /\ post_result' = "none"
    /\ outcome' = "none"
    /\ calls' = <<>>
    /\ ruckit_response' = "unset"
    /\ UNCHANGED <<schedVars, trackVars, pureVars>>

\* A cycle that fetches the device status again when the fetch failed.
AfterStatusFetch_Retry(ok) == IF ok THEN "get_addin" ELSE "get_status"

\* Where the cycle goes after the device status fetch.
AfterStatusFetch(ok) == "get_addin"

\* device_status_list = self.get_device_status_info()
GetDeviceStatusInfo ==
    /\ cpc = "get_status"
    /\ \E ok \in BOOLEAN, data \in SeqsUpTo(DeviceStatusDomain, MaxDevices) :
        /\ ok \/ data = <<>>
        /\ device_status_list' = OrEmpty(ok, data)
        /\ calls' = Append(calls, [op |-> "DeviceStatusInfo", ok |-> ok])
        /\ cpc' = AfterStatusFetch(ok)
    /\ UNCHANGED <<add_in_data_list, device_mapping, skipped_records, discrepancies_found,
                   idx, ruckit_coords, post_result, outcome, ruckit_response>>
    /\ UNCHANGED <<schedVars, trackVars, pureVars>>

\* add_in_data_list = self.get_add_in_data()
GetAddInData ==
    /\ cpc = "get_addin"
    /\ \E ok \in BOOLEAN, data \in SeqsUpTo(CycleAddInDomain, MaxRecords) :
        /\ ok \/ data = <<>>
        /\ add_in_data_list' = OrEmpty(ok, data)
        /\ calls' = Append(calls, [op |-> "AddInData", ok |-> ok])
    /\ cpc' = "mapping"
    /\ UNCHANGED <<device_status_list, device_mapping, skipped_records, discrepancies_found,
                   idx, ruckit_coords, post_result, outcome, ruckit_response>>
    /\ UNCHANGED <<schedVars, trackVars, pureVars>>

\* The loop over add_in_data_list, then discrepancies_found = 0.
BuildDeviceMapping ==
    /\ cpc = "mapping"
    /\ LET built == BuildMapping(add_in_data_list)
       IN  /\ device_mapping' = built.mapping
           /\ skipped_records' = built.skipped
    /\ discrepancies_found' = 0
    /\ cpc' = "devices"
    /\ UNCHANGED <<device_status_list, add_in_data_list, idx, ruckit_coords, post_result,
                   outcome, calls, ruckit_response>>
    /\ UNCHANGED <<schedVars, trackVars, pureVars>>

\* if not all([device_id, geotab_lat is not None, geotab_lon is not None])
DeviceComplete(ds) ==
    Truthy(ds.id) /\ HasField(ds, "latitude") /\ HasField(ds, "longitude")

\* A loop without the membership test: the lookup raises KeyError.
HasMapping_Unchecked(device_id, mapping) == TRUE

\* if device_id not in device_mapping
HasMapping(device_id, mapping) == device_id \in DOMAIN mapping

\* The device is done with: the for loop moves on.
NextDevice(msg) ==
    /\ outcome' = msg
    /\ idx' = idx + 1
    /\ cpc' = "devices"

\* An exception inside the device's try block that ends the whole cycle.
DeviceRaises_AbortsCycle ==
    /\ outcome' = "error"
    /\ idx' = idx
    /\ cpc' = "returned"

\* except Exception as e: print(...); continue
DeviceRaises ==
    /\ outcome' = "error"
    /\ idx' = idx + 1
    /\ cpc' = "devices"

\* One device status, up to the Tracking read request.
ProcessDevice ==
    /\ cpc = "devices"
    /\ idx <= Len(device_status_list)
    /\ ruckit_coords' = <<>>
    /\ ruckit_response' = "unset"
    /\ IF HasField(Current, "malformed")
       THEN DeviceRaises /\ UNCHANGED calls
       ELSE IF ~DeviceComplete(Current)
       THEN NextDevice("incomplete") /\ UNCHANGED calls
       ELSE IF ~HasMapping(Current.id, device_mapping)
       THEN NextDevice("unmapped") /\ UNCHANGED calls
       ELSE IF Current.id \notin DOMAIN device_mapping
       THEN DeviceRaises /\ UNCHANGED calls            \* KeyError
       ELSE /\ calls' = Append(calls,
                    [op |-> "GET", idx |-> idx,
                     token |-> device_mapping[Current.id].ri_token,
                     driver |-> device_mapping[Current.id].ri_driver])
            /\ cpc' = "get_ruckit"
            /\ UNCHANGED <<outcome, idx>>
    /\ UNCHANGED <<device_status_list, add_in_data_list, device_mapping, skipped_records,
                   discrepancies_found, post_result>>
    /\ UNCHANGED <<schedVars, trackVars, pureVars>>

\* geotab_coords = (geotab_lon, geotab_lat)
GeotabCoords(ds) == <<ds.longitude, ds.latitude>>

\* A payload with latitude and longitude in the wrong order.
PayloadCoordinates_Swapped(ds) == <<ds.latitude, ds.longitude>>

\* The 'coordinates' of the payload post_location_update_to_ruckit builds.
PayloadCoordinates(ds) == <<ds.longitude, ds.latitude>>

\* if not self.coordinates_match(geotab_coords, ruckit_coords)
Discrepancy(geotab, ruckit) == ~CoordinatesMatch(geotab, ruckit, Tolerance)

\* What get_ruckit_location_updates handed back, by its shape.
ResponseShape(resp) ==
    IF resp.kind = "raise" THEN "raise"
    ELSE IF resp.kind = "none" THEN "None"
    ELSE IF resp.kind = "no_results" THEN "no_results"
    ELSE IF resp.results = <<>> THEN "empty"
    ELSE "results"

\* if not ruckit_response or 'results' not in ruckit_response
NoLocationData(resp) == resp.kind \in {"none", "no_results"}

\* A loop without the test for an empty list.
EmptyResults_Unchecked(results) == FALSE

\* if not results
EmptyResults(results) == results = <<>>

\* The credential handed to the correction: the device handle in its place.
PushToken_Device(info) == info.ri_device

\* ruckit_info['ri_token'], the first argument of post_location_update_to_ruckit
PushToken(info) == info.ri_token

\* if geotab_lat is None or geotab_lon is None: return None
PushHasCoordinates(ds) == HasField(ds, "latitude") /\ HasField(ds, "longitude")

\* A result that is present whenever a response arrived.
PostResult_AnyStatus(status) == IF status # 0 THEN "present" ELSE "absent"

\* response.json() if response.status_code in [200, 201], else None; status 0
\* stands for requests.post raising.
PostResult(status) == IF status \in {200, 201} THEN "present" ELSE "absent"

\* datetime.now().isoformat(): fixed width, most significant digit first.
IsoFormat(t) == <<t \div 10, t % 10>>

\* A counter that only counts the corrections Tracking accepted.
CountsDiscrepancy_OnSuccess(result) == result = "present"

\* discrepancies_found += 1 follows the push whatever it returned.
CountsDiscrepancy(result) == TRUE

\* The Tracking read returns resp; the comparison; the correction request.
RuckitResponseWith(resp) ==
    /\ cpc = "get_ruckit"
    /\ ruckit_response' = ResponseShape(resp)
    /\ IF resp.kind = "raise"
       THEN DeviceRaises /\ UNCHANGED <<calls, ruckit_coords, discrepancies_found>>
       ELSE IF NoLocationData(resp)
       THEN NextDevice("no_data") /\ UNCHANGED <<calls, ruckit_coords, discrepancies_found>>
       ELSE IF EmptyResults(resp.results)
       THEN NextDevice("empty") /\ UNCHANGED <<calls, ruckit_coords, discrepancies_found>>
       ELSE IF resp.results = <<>>                      \* max() of an empty list
       THEN DeviceRaises /\ UNCHANGED <<calls, ruckit_coords, discrepancies_found>>
       ELSE LET coords == ExtractCoordinates(LatestUpdate(resp.results).coordinates)
            IN  /\ ruckit_coords' = coords
                /\ IF coords = <<>>
                   THEN NextDevice("no_coords") /\ UNCHANGED <<calls, discrepancies_found>>
                   ELSE IF ~Discrepancy(GeotabCoords(Current), coords)
                   THEN NextDevice("in_sync") /\ UNCHANGED <<calls, discrepancies_found>>
                   ELSE IF ~PushHasCoordinates(Current)
                   THEN /\ NextDevice("discrepancy")   \* the push returns None at once
                        /\ discrepancies_found' = discrepancies_found
                                + (IF CountsDiscrepancy("absent") THEN 1 ELSE 0)
                        /\ UNCHANGED calls
                   ELSE /\ calls' = Append(calls,
                               [op |-> "POST", idx |-> idx,
                                token |-> PushToken(device_mapping[Current.id]),
                                truck |-> device_mapping[Current.id].ri_device,
                                driver |-> device_mapping[Current.id].ri_driver,
                                device_id |-> Current.id,
                                date |-> IsoFormat(clock),
                                coordinates |-> PayloadCoordinates(Current)])
                        /\ cpc' = "post"
                        /\ UNCHANGED <<outcome, idx, discrepancies_found>>
    /\ UNCHANGED <<device_status_list, add_in_data_list, device_mapping, skipped_records,
                   post_result>>
    /\ UNCHANGED <<schedVars, pureVars>>

\* The Tracking read of a cycle whose Tracking is any service at all.
RuckitResponse ==
    /\ \E resp \in RuckitResponses : RuckitResponseWith(resp)
    /\ UNCHANGED trackVars

\* requests.post returns status or raises; discrepancies_found += 1.
PostResponseWith(status) ==
    /\ cpc = "post"
    /\ post_result' = PostResult(status)
    /\ discrepancies_found' = discrepancies_found
            + (IF CountsDiscrepancy(PostResult(status)) THEN 1 ELSE 0)
    /\ NextDevice("discrepancy")
    /\ UNCHANGED <<device_status_list, add_in_data_list, device_mapping, skipped_records,
                   ruckit_coords, calls, ruckit_response>>
    /\ UNCHANGED <<schedVars, pureVars>>

\* The correction request of a cycle whose Tracking is any service at all.
PostResponse ==
    /\ \E status \in PostStatuses : PostResponseWith(status)
    /\ UNCHANGED trackVars

\* The for loop is exhausted: "Sync completed", return.
SyncEnd ==
    /\ cpc = "devices"
    /\ idx > Len(device_status_list)
    /\ cpc' = "returned"
    /\ UNCHANGED <<device_status_list, add_in_data_list, device_mapping, skipped_records,
                   discrepancies_found, idx, ruckit_coords, post_result, outcome, calls,
                   ruckit_response>>
    /\ UNCHANGED <<schedVars, trackVars, pureVars>>

\* The mapping loop on its own, from every batch.
InitMapper ==
    /\ running = FALSE
    /\ geotab_api = "authenticated"
    /\ scheduler_thread = NoThread
    /\ pc = [t \in Threads |-> "unborn"]
    /\ ctl = "idle"
    /\ last_call = "none"
    /\ ever_stopped = FALSE
    /\ auth_failures = [t \in Threads |-> 0]
    /\ unslept = [t \in Threads |-> FALSE]
    /\ cpc = "mapping"
    /\ device_status_list = <<>>
    /\ add_in_data_list \in SeqsUpTo(AddInDomain, MaxRecords)
    /\ device_mapping = EmptyMapping
    /\ skipped_records = 0
    /\ discrepancies_found = 0
    /\ idx = 1
    /\ ruckit_coords = <<>>
    /\ post_result = "none"
    /\ outcome = "none"
    /\ calls = <<>>
    /\ ruckit_response = "unset"
    /\ tracking_store = <<>>
    /\ clock = 0
    /\ pushed = 0
    /\ fn_call = [fn |-> "none"]
    /\ fn_ret = <<>>

SpecMapper == InitMapper /\ [][BuildDeviceMapping]_vars

NextCycle ==
    \/ SyncBegin
    \/ GetDeviceStatusInfo
    \/ GetAddInData
    \/ BuildDeviceMapping
    \/ ProcessDevice
    \/ RuckitResponse
    \/ PostResponse
    \/ SyncEnd

SpecCycle == Init /\ [][NextCycle]_vars

-----------------------------------------------------------------------------
\* SpecConverge: successive cycles for one device whose Telemetry data does not
\* change, against a Tracking service that keeps its location updates: a read
\* returns all of them, and an accepted correction is stored with the date and
\* the coordinates of its payload.

\* Location updates Tracking may hold before the first cycle. Their dates are
\* not the program's: earlier than its clock, ahead of it (a service or a
\* tracker on another time zone), or missing.
StoreDomain ==
    { [date |-> d, coordinates |-> c] :
        d \in { <<0, 5>>, <<1, 5>>, <<>> },
        c \in { <<1000020, 2000000>>, <<1000000, 2000000>> } }

\* The Telemetry data of every cycle.
SteadyStatus == << [id |-> "b1", longitude |-> 1000000, latitude |-> 2000000] >>
SteadyAddIn == << AddInRecord("b1", "d1", "t1", "r1") >>
SteadyFetches == << [op |-> "DeviceStatusInfo", ok |-> TRUE], [op |-> "AddInData", ok |-> TRUE] >>

\* A cycle has fetched the Telemetry data and built its mapping.
InitConverge ==
    /\ running = FALSE
    /\ geotab_api = "authenticated"
    /\ scheduler_thread = NoThread
    /\ pc = [t \in Threads |-> "unborn"]
    /\ ctl = "idle"
    /\ last_call = "none"
    /\ ever_stopped = FALSE
    /\ auth_failures = [t \in Threads |-> 0]
    /\ unslept = [t \in Threads |-> FALSE]
    /\ cpc = "devices"
    /\ device_status_list = SteadyStatus
    /\ add_in_data_list = SteadyAddIn
    /\ device_mapping = BuildMapping(SteadyAddIn).mapping
    /\ skipped_records = BuildMapping(SteadyAddIn).skipped
    /\ discrepancies_found = 0
    /\ idx = 1
    /\ ruckit_coords = <<>>
    /\ post_result = "none"
    /\ outcome = "none"
    /\ calls = SteadyFetches
    /\ ruckit_response = "unset"
    /\ tracking_store \in SeqsUpTo(StoreDomain, MaxResults)
    /\ clock = 10
    /\ pushed = 0
    /\ fn_call = [fn |-> "none"]
    /\ fn_ret = <<>>

\* The Tracking read returns what Tracking holds.
StoredRuckitResponse ==
    /\ RuckitResponseWith([kind |-> "results", results |-> tracking_store])
    /\ UNCHANGED trackVars

\* The correction request: when Tracking answers 200 or 201 it has stored the
\* payload's date and coordinates after its earlier updates.
StoredPostResponse ==
    /\ \E status \in PostStatuses :
        /\ PostResponseWith(status)
        /\ IF status \in {200, 201}
           THEN /\ tracking_store' =
                      Append(tracking_store,
                             [date |-> calls[Len(calls)].date,
                              coordinates |-> calls[Len(calls)].coordinates])
                /\ pushed' = pushed + 1
           ELSE UNCHANGED <<tracking_store, pushed>>
    /\ UNCHANGED clock

\* One interval later the next call of process_location_sync fetches the same
\* Telemetry data and builds the same mapping.
NextSteadyCycle ==
    /\ cpc = "returned"
    /\ clock < MaxClock
    /\ clock' = clock + 1
    /\ cpc' = "devices"
    /\ device_status_list' = SteadyStatus
    /\ add_in_data_list' = SteadyAddIn
    /\ device_mapping' = BuildMapping(SteadyAddIn).mapping
    /\ skipped_records' = BuildMapping(SteadyAddIn).skipped
    /\ discrepancies_found' = 0
    /\ idx' = 1
    /\ ruckit_coords' = <<>>
    /\ post_result' = "none"
    /\ outcome' = "none"
    /\ calls' = SteadyFetches
    /\ ruckit_response' = "unset"
    /\ UNCHANGED <<tracking_store, pushed, schedVars, pureVars>>

NextConverge ==
    \/ ProcessDevice
    \/ StoredRuckitResponse
    \/ StoredPostResponse
    \/ SyncEnd
    \/ NextSteadyCycle

SpecConverge == InitConverge /\ [][NextConverge]_vars

-----------------------------------------------------------------------------
\* SpecPure: one call of a function of the class, on arguments of every kind.

\* Elements of a result list, told apart by their coordinates; the last one has
\* no 'date' at all.
LatestDomain ==
    { [date |-> d, coordinates |-> c] :
        d \in { <<2, 0, 2, 4, 0, 1, 0, 1>>, <<2, 0, 2, 4, 0, 1, 0, 2>>, <<2, 0, 2, 4>>,
                <<9>>, <<>> },
        c \in { <<1000010, 1999990>>, <<1000020, 2000000>> } }
    \cup { [coordinates |-> <<1000000, 2000000>>] }

\* results is not empty where max() is reached.
LatestCalls ==
    { [fn |-> "latest_update", results |-> r] :
        r \in SeqsUpTo(LatestDomain, MaxResults) \ {<<>>} }

\* A coordinate pair, or <<>> for None.
MatchCoords ==
    { <<>> } \cup { <<lon, lat>> : lon \in {1000000, 1000005, 1000010, 1000011},
                                   lat \in {1999989, 2000000, 2000005} }

MatchTolerances == {0, 5, Tolerance}

MatchCalls ==
    { [fn |-> "coordinates_match", coord1 |-> a, coord2 |-> b, tolerance |-> t] :
        a \in MatchCoords, b \in MatchCoords, t \in MatchTolerances }

\* The device status handed to post_location_update_to_ruckit, and what
\* requests.post then does.
PushCalls ==
    { [fn |-> "post_location_update_to_ruckit", device_status |-> ds, status |-> st] :
        ds \in {d \in DeviceStatusDomain : HasField(d, "id")}, st \in PostStatuses }

InitPure ==
    /\ running = FALSE
    /\ geotab_api = "None"
    /\ scheduler_thread = NoThread
    /\ pc = [t \in Threads |-> "unborn"]
    /\ ctl = "idle"
    /\ last_call = "none"
    /\ ever_stopped = FALSE
    /\ auth_failures = [t \in Threads |-> 0]
    /\ unslept = [t \in Threads |-> FALSE]
    /\ cpc = "idle"
    /\ device_status_list = <<>>
    /\ add_in_data_list = <<>>
    /\ device_mapping = EmptyMapping
    /\ skipped_records = 0
    /\ discrepancies_found = 0
    /\ idx = 1
    /\ ruckit_coords = <<>>
    /\ post_result = "none"
    /\ outcome = "none"
    /\ calls = <<>>
    /\ ruckit_response = "unset"
    /\ tracking_store = <<>>
    /\ clock = 0
    /\ pushed = 0
    /\ \/ fn_call \in LatestCalls
       \/ fn_call \in MatchCalls
       \/ fn_call \in PushCalls
    /\ fn_ret = <<>>

ApplyLatestUpdate ==
    /\ fn_call.fn = "latest_update"
    /\ fn_ret = <<>>
    /\ fn_ret' = <<LatestUpdate(fn_call.results)>>
    /\ UNCHANGED <<fn_call, schedVars, cycleVars, trackVars>>

ApplyCoordinatesMatch ==
    /\ fn_call.fn = "coordinates_match"
    /\ fn_ret = <<>>
    /\ fn_ret' = <<CoordinatesMatch(fn_call.coord1, fn_call.coord2, fn_call.tolerance)>>
    /\ UNCHANGED <<fn_call, schedVars, cycleVars, trackVars>>

\* post_location_update_to_ruckit: what it returns and the requests it sent.
ApplyPostLocationUpdate ==
    /\ fn_call.fn = "post_location_update_to_ruckit"
    /\ fn_ret = <<>>
    /\ LET ds == fn_call.device_status
       IN  fn_ret' = IF ~PushHasCoordinates(ds)
                     THEN << [result |-> "absent", requests |-> <<>>] >>
                     ELSE << [result |-> PostResult(fn_call.status),
                              requests |-> << [op |-> "POST",
                                               coordinates |-> PayloadCoordinates(ds)] >>] >>
    /\ UNCHANGED <<fn_call, schedVars, cycleVars, trackVars>>

NextPure ==
    \/ ApplyLatestUpdate
    \/ ApplyCoordinatesMatch
    \/ ApplyPostLocationUpdate

SpecPure == InitPure /\ [][NextPure]_vars

-----------------------------------------------------------------------------
\* Properties of the reconciliation cycle (SpecCycle) and of the mapping loop
\* (SpecMapper).

TrackingCall(c) == c.op \in {"GET", "POST"}
StatusFetches == {i \in DOMAIN calls : calls[i].op = "DeviceStatusInfo"}
FailedStatusFetch(i) == calls[i].op = "DeviceStatusInfo" /\ ~calls[i].ok

\* C6: when the device status fetch fails the cycle stops there: no call of any
\* kind follows it in that cycle.
C6_FetchFailureAborts ==
    \A i \in DOMAIN calls : FailedStatusFetch(i) => Len(calls) = i

\* C6 as amended: a failed device status fetch is taken as an empty list: it is
\* not repeated within the cycle, the AddInData fetch still follows, and no
\* Tracking call is made and no discrepancy counted in that cycle.
C6_FetchFailureSkipsTracking ==
    /\ Cardinality(StatusFetches) <= 1
    /\ \A i \in DOMAIN calls : FailedStatusFetch(i) =>
          /\ i = 1
          /\ device_status_list = <<>>
          /\ discrepancies_found = 0
          /\ Len(calls) <= 2
          /\ \A j \in DOMAIN calls : j > i => calls[j].op = "AddInData"
          /\ cpc \notin {"get_ruckit", "post"}
          /\ cpc \in {"devices", "returned"} => Len(calls) = 2

\* C6's case: the cycle has returned after a failed device status fetch; the
\* AddInData fetch succeeded and mapped a device, and nothing else was called.
C6_Witness ==
    /\ cpc = "returned"
    /\ Len(calls) = 2
    /\ FailedStatusFetch(1)
    /\ calls[2].op = "AddInData" /\ calls[2].ok
    /\ DOMAIN device_mapping # {}

\* |a - b| > tol on either axis.
Mismatch(lon1, lat1, lon2, lat2, tol) ==
    \/ lon1 - lon2 > tol \/ lon2 - lon1 > tol
    \/ lat1 - lat2 > tol \/ lat2 - lat1 > tol

\* C7: a correction is pushed for a device only when its status carries both
\* coordinates, Tracking's latest coordinates were extracted and the two differ
\* by more than the tolerance on an axis; the payload carries Telemetry's
\* [longitude, latitude] of that status; one payload at most per device status,
\* and exactly one when they differ.
C7_PushOnlyOnMismatch ==
    /\ [](\A i \in DOMAIN calls : calls[i].op = "POST" =>
            LET ds == device_status_list[calls[i].idx]
            IN  /\ HasField(ds, "longitude") /\ HasField(ds, "latitude")
                /\ calls[i].coordinates = <<ds.longitude, ds.latitude>>
                /\ calls[i].device_id = ds.id
                /\ \A j \in DOMAIN calls :
                      (calls[j].op = "POST" /\ calls[j].idx = calls[i].idx) => j = i)
    /\ [](cpc = "post" =>
            /\ calls[Len(calls)].op = "POST" /\ calls[Len(calls)].idx = idx
            /\ Len(ruckit_coords) = 2
            /\ Mismatch(Current.longitude, Current.latitude,
                        ruckit_coords[1], ruckit_coords[2], Tolerance))
    /\ [][ /\ Len(calls') > Len(calls) /\ calls'[Len(calls')].op = "POST" =>
                cpc = "get_ruckit" /\ cpc' = "post" /\ Len(calls') = Len(calls) + 1
           /\ (cpc = "get_ruckit" /\ cpc' = "devices" /\ Len(ruckit_coords') = 2) =>
                ~Mismatch(Current.longitude, Current.latitude,
                          ruckit_coords'[1], ruckit_coords'[2], Tolerance)
         ]_vars

\* C7's case: Telemetry has (10.00000, 20.00000) for the device, Tracking's latest
\* is (10.00020, 20.00000), and the correction request is out.
C7_Witness ==
    /\ cpc = "post"
    /\ Current.longitude = 1000000 /\ Current.latitude = 2000000
    /\ ruckit_coords = <<1000020, 2000000>>
    /\ calls[Len(calls)].coordinates = <<1000000, 2000000>>

AnyPlaceholder(rec) ==
    \/ IsPlaceholderValue(rec.gt_device) \/ IsPlaceholderValue(rec.ri_device)
    \/ IsPlaceholderValue(rec.ri_token) \/ IsPlaceholderValue(rec.ri_driver)

PlaceholderRecord(rec) == ~HasField(rec, "malformed") /\ AnyPlaceholder(rec)
NotPlaceholderRecord(rec) == ~PlaceholderRecord(rec)

\* C8: every record with a placeholder in any of its four fields is dropped (the
\* mapping is the one built from the other records alone) and counted as skipped.
C8_PlaceholderDropped ==
    cpc = "devices" =>
        /\ skipped_records =
              Cardinality({i \in DOMAIN add_in_data_list :
                              PlaceholderRecord(add_in_data_list[i])})
        /\ device_mapping =
              BuildMapping(SelectSeq(add_in_data_list, NotPlaceholderRecord)).mapping

\* A record 'details' of which is not a dict, or with a field absent or empty.
BadRecord(rec) ==
    \/ HasField(rec, "malformed")
    \/ rec.gt_device \in {NoneVal, ""} \/ rec.ri_device \in {NoneVal, ""}
    \/ rec.ri_token \in {NoneVal, ""} \/ rec.ri_driver \in {NoneVal, ""}

GoodRecord(rec) == ~BadRecord(rec)

\* C9: the mapping loop ends for every batch, and its mapping and its count are
\* those of the batch without its malformed and incomplete records: such a record
\* changes nothing and the others are processed as if it were absent.
C9_BadRecordsIsolated ==
    cpc = "devices" =>
        LET others == SelectSeq(add_in_data_list, GoodRecord)
        IN  /\ device_mapping = BuildMapping(others).mapping
            /\ skipped_records = BuildMapping(others).skipped
            /\ DOMAIN device_mapping \subseteq {others[i].gt_device : i \in DOMAIN others}
            /\ others = <<>> => device_mapping = EmptyMapping /\ skipped_records = 0

\* C9's case: a batch of a valid record between a malformed and an incomplete one
\* has been mapped.
C9_Witness ==
    /\ cpc = "devices"
    /\ Len(add_in_data_list) = 2
    /\ HasField(add_in_data_list[1], "malformed")
    /\ GoodRecord(add_in_data_list[2])
    /\ DOMAIN device_mapping = {"b1"}

\* C10: every Tracking call of a cycle is for a device status whose identity is a
\* key of the mapping built in that cycle (none at all when the AddInData fetch
\* returned nothing), and a complete device status without a key is logged as
\* unmapped, not as an error.
C10_UnmappedDeviceSkipped ==
    /\ \A i \in DOMAIN calls : TrackingCall(calls[i]) =>
          /\ add_in_data_list # <<>>
          /\ device_status_list[calls[i].idx].id \in DOMAIN device_mapping
    /\ (cpc = "devices" /\ idx > 1) =>
          LET ds == device_status_list[idx - 1]
          IN  (/\ ~HasField(ds, "malformed")
               /\ HasField(ds, "longitude") /\ HasField(ds, "latitude")
               /\ ds.id \notin {NoneVal, ""}
               /\ ds.id \notin DOMAIN device_mapping)
              => /\ outcome = "unmapped"
                 /\ \A i \in DOMAIN calls : TrackingCall(calls[i]) => calls[i].idx # idx - 1

\* C10's case: a mapping with a key was built, and a complete device status of
\* another identity has been passed over.
C10_Witness ==
    /\ cpc = "devices"
    /\ idx = 2
    /\ outcome = "unmapped"
    /\ DOMAIN device_mapping = {"b1"}
    /\ device_status_list[1].id = "b2"

\* A record is valid when its four fields are all non-empty and none of them
\* is a placeholder.
ValidRecord(rec) == GoodRecord(rec) /\ ~AnyPlaceholder(rec)

ValidIndices(list) == {i \in DOMAIN list : ValidRecord(list[i])}

\* The last valid record of the batch that carries key k.
LastValidFor(list, k) ==
    CHOOSE i \in ValidIndices(list) :
        /\ list[i].gt_device = k
        /\ \A j \in ValidIndices(list) : list[j].gt_device = k => j <= i

\* C16: the mapping built from a batch has one entry per key, its keys are the
\* keys of the batch's valid records, and the entry of a key is the triple of
\* the last valid record carrying it; an incomplete or placeholder record with
\* the same key, before or after, neither replaces nor removes that entry.
C16_LastValidRecordWins ==
    cpc = "devices" =>
        /\ DOMAIN device_mapping =
              {add_in_data_list[i].gt_device : i \in ValidIndices(add_in_data_list)}
        /\ \A k \in DOMAIN device_mapping :
              LET rec == add_in_data_list[LastValidFor(add_in_data_list, k)]
              IN  device_mapping[k] = [ri_device |-> rec.ri_device,
                                       ri_token |-> rec.ri_token,
                                       ri_driver |-> rec.ri_driver]

-----------------------------------------------------------------------------
\* Properties of one device's processing within the cycle (SpecCycle).

NoUsableResponse == {"None", "no_results", "empty"}
Posts == {i \in DOMAIN calls : calls[i].op = "POST"}
Gets == {i \in DOMAIN calls : calls[i].op = "GET"}

\* C11: when the Tracking read of a device hands back nothing (a non-200 status
\* or a transport failure), a response without a result list, or an empty
\* result list, the device is skipped with the matching log line: the step adds
\* no call, leaves the discrepancy counter as it was and moves to the next
\* device, so the read stays the last call made for that device.
C11_NoDataSkipsDevice ==
    /\ [][(cpc = "get_ruckit" /\ ruckit_response' \in NoUsableResponse) =>
            /\ outcome' = (IF ruckit_response' = "empty" THEN "empty" ELSE "no_data")
            /\ calls' = calls
            /\ discrepancies_found' = discrepancies_found
            /\ idx' = idx + 1
            /\ cpc' = "devices"]_vars
    /\ [](ruckit_response \in NoUsableResponse =>
            /\ cpc \in {"devices", "returned"}
            /\ calls[Len(calls)].op = "GET"
            /\ calls[Len(calls)].idx = idx - 1)

\* A second device whose read came back absent, after a first one was corrected.
C11_Witness ==
    /\ cpc = "returned"
    /\ ruckit_response = "None"
    /\ outcome = "no_data"
    /\ idx = 3
    /\ discrepancies_found = 1
    /\ Cardinality(Posts) = 1
    /\ Cardinality(Gets) = 2

C15_CounterCountsPushes ==
    /\ [](cpc \in {"devices", "returned"} => discrepancies_found = Cardinality(Posts))
    /\ [](cpc = "post" => discrepancies_found = Cardinality(Posts) - 1)
    /\ [][cpc = "post" => /\ discrepancies_found' = discrepancies_found + 1
                          /\ outcome' = "discrepancy"
                          /\ post_result' \in {"present", "absent"}]_vars
    /\ [][(cpc # "post" /\ cpc' # "get_status" /\ cpc # "mapping")
            => discrepancies_found' = discrepancies_found]_vars

\* A cycle whose only correction failed, counted all the same.
C15_Witness ==
    /\ cpc = "returned"
    /\ discrepancies_found = 1
    /\ post_result = "absent"
    /\ Cardinality(Posts) = 1
    /\ Len(device_status_list) = 2

\* C19: within one cycle a device status has at most one Tracking read and at
\* most one correction; a correction comes right after the read of the same
\* device status, for the driver and with the credential the mapping gives that
\* device, the same as the read used; and the calls follow the device order:
\* while a call is in flight it is the last one and belongs to the device under
\* the loop, and once the loop has moved on every call belongs to an earlier
\* device status.
C19_OneReadOnePushInOrder ==
    /\ \A i, j \in Gets : calls[i].idx = calls[j].idx => i = j
    /\ \A i, j \in Posts : calls[i].idx = calls[j].idx => i = j
    /\ \A i \in Posts :
          /\ i - 1 \in Gets
          /\ calls[i - 1].idx = calls[i].idx
          /\ calls[i].driver = calls[i - 1].driver
          /\ calls[i].token = calls[i - 1].token
          /\ LET info == device_mapping[device_status_list[calls[i].idx].id]
             IN  calls[i].driver = info.ri_driver /\ calls[i].token = info.ri_token
    /\ \A i, j \in Gets \cup Posts : i < j => calls[i].idx <= calls[j].idx
    /\ cpc \in {"get_ruckit", "post"} =>
          /\ calls[Len(calls)].idx = idx
          /\ calls[Len(calls)].op = (IF cpc = "post" THEN "POST" ELSE "GET")
    /\ cpc \in {"devices", "returned"} =>
          \A i \in Gets \cup Posts : calls[i].idx < idx

\* A cycle of two device statuses, each read and then corrected.
C19_Witness ==
    /\ cpc = "returned"
    /\ Cardinality(Gets) = 2
    /\ Cardinality(Posts) = 2
    /\ calls[Len(calls)].op = "POST"
    /\ calls[Len(calls)].idx = 2

-----------------------------------------------------------------------------
\* Properties of the functions called on their own (SpecPure).

Returned(f) == fn_call.fn = f /\ fn_ret # <<>>

\* a >= b as Python orders strings: b is a prefix of a, or a has the larger
\* character where they first differ.
LexGeq(a, b) ==
    \/ /\ Len(b) <= Len(a)
       /\ \A k \in 1..Len(b) : a[k] = b[k]
    \/ \E k \in 1..Min(Len(a), Len(b)) :
          /\ a[k] > b[k]
          /\ \A m \in 1..(k - 1) : a[m] = b[m]

KeyOf(x) == IF "date" \in DOMAIN x THEN x.date ELSE <<>>

Jan1 == [date |-> <<2, 0, 2, 4, 0, 1, 0, 1>>, coordinates |-> <<1000010, 1999990>>]
Jan2 == [date |-> <<2, 0, 2, 4, 0, 1, 0, 2>>, coordinates |-> <<1000020, 2000000>>]

\* C12: for every non-empty result list the record selected for the comparison
\* is an element of the list whose date is lexicographically greater than or
\* equal to the date of every element, a record without a date counting as the
\* empty string; of a record dated 2024-01-01 and one dated 2024-01-02 the
\* second is selected, in either order.
C12_LatestIsLexicographicMax ==
    Returned("latest_update") =>
        LET results == fn_call.results
            latest  == fn_ret[1]
        IN  /\ \E i \in DOMAIN results : results[i] = latest
            /\ \A j \in DOMAIN results : LexGeq(KeyOf(latest), KeyOf(results[j]))
            /\ results \in {<<Jan1, Jan2>>, <<Jan2, Jan1>>} => latest = Jan2

\* The later record listed first, and selected.
C12_Witness ==
    /\ Returned("latest_update")
    /\ fn_call.results = <<Jan2, Jan1>>
    /\ fn_ret = <<Jan2>>

\* C13: coordinates_match is false when either argument is None, whatever the
\* tolerance; otherwise it is true exactly when the longitudes differ by no
\* more than the tolerance and the latitudes differ by no more than the
\* tolerance, a difference equal to the tolerance counting as a match;
\* (10.00000, 20.00000) and (10.00005, 20.00005) match at 0.0001; swapping the
\* two arguments never changes the answer.
C13_MatchPerAxis ==
    Returned("coordinates_match") =>
        LET a == fn_call.coord1
            b == fn_call.coord2
            tol == fn_call.tolerance
            dlon == a[1] - b[1]
            dlat == a[2] - b[2]
        IN  /\ (a = <<>> \/ b = <<>>) => fn_ret[1] = FALSE
            /\ (a # <<>> /\ b # <<>>) =>
                  fn_ret[1] = (/\ dlon <= tol /\ -dlon <= tol
                               /\ dlat <= tol /\ -dlat <= tol)
            /\ (a = <<1000000, 2000000>> /\ b = <<1000005, 2000005>> /\ tol = 10)
                  => fn_ret[1] = TRUE
            /\ fn_ret[1] = CoordinatesMatch(b, a, tol)

\* Both axes differ by exactly the tolerance: a match.
C13_Witness ==
    /\ Returned("coordinates_match")
    /\ fn_call.coord1 = <<1000000, 2000000>>
    /\ fn_call.coord2 = <<1000005, 2000005>>
    /\ fn_call.tolerance = 5
    /\ fn_ret = <<TRUE>>

\* C17: post_location_update_to_ruckit called with a device status lacking
\* latitude or longitude returns None and sends no request; otherwise it sends
\* exactly one POST, and returns a result only if the status was 200 or 201.
C17_PushPrecheck ==
    Returned("post_location_update_to_ruckit") =>
        LET ds == fn_call.device_status
            ret == fn_ret[1]
        IN  IF "latitude" \notin DOMAIN ds \/ "longitude" \notin DOMAIN ds
            THEN ret.result = "absent" /\ ret.requests = <<>>
            ELSE /\ Len(ret.requests) = 1
                 /\ ret.requests[1].op = "POST"
                 /\ ret.result = "present" => fn_call.status \in {200, 201}

\* A status without its latitude: nothing sent although the service would
\* have answered 200.
C17_Witness ==
    /\ Returned("post_location_update_to_ruckit")
    /\ "latitude" \notin DOMAIN fn_call.device_status
    /\ fn_call.status = 200
    /\ fn_ret[1].result = "absent"
    /\ fn_ret[1].requests = <<>>

-----------------------------------------------------------------------------
\* Property of successive cycles (SpecConverge).

\* C20: once Tracking has accepted and stored a correction, and Telemetry's
\* position stays the same, every later cycle selects the stored correction as
\* the latest update, finds the device in sync and sends no further correction.
C20_CorrectionConverges ==
    pushed > 0 =>
        /\ cpc # "post"
        /\ (Posts = {} /\ idx > 1) =>
              /\ outcome = "in_sync"
              /\ ruckit_coords = GeotabCoords(device_status_list[1])

=============================================================================
